---- MODULE Spec2Model ----
(***************************************************************************)
(* Model of the DevOps organizer: the server's AgentDataStore (src/app.py) *)
(* with its ingestion handlers, and the SimpleAgent collection cycle       *)
(* (src/agent/simple-agent.py).                                            *)
(*                                                                         *)
(* Time is counted in ticks, SubSecond ticks to the second.  A text        *)
(* timestamp is a sequence of fields: <<sec>> is an ISO string without a   *)
(* fraction, <<sec, frac>> one with a fraction, <<sec, ZED>> one carrying  *)
(* the 'Z' suffix that time.strftime("...Z") writes.  The date and time    *)
(* fields of an ISO string are zero padded and of fixed width, so one      *)
(* field compares as its number.                                           *)
(***************************************************************************)
EXTENDS Integers, Sequences, FiniteSets, TLC

\* ---- bounds of the model ----
SubSecond == 2          \* ticks per second (the code has microseconds)
MaxEvents == 4          \* requests and clock advances of the environment
MaxCycles == 2          \* agent cycles
MaxFiles == 3           \* entries of a scanned directory
MaxDirs == 3            \* directories of a scanned tree
MaxHandlers == 2        \* snapshot handlers in flight

\* ---- program constants ----
OnlineMinutes == 2
WarningMinutes == 10
RetentionHours == 24
SweepHours == 1
ZED == -1

Minute == 60 * SubSecond
Hour == 60 * Minute

timedelta(hours, minutes) == hours * Hour + minutes * Minute

Tables == <<"system_data", "projects_data", "docker_data", "k3s_data", "ssh_data">>
TableSet == {Tables[i] : i \in 1..Len(Tables)}

AgentIds == {"a1", "a2"}
AgentNames == {"n1", "n2"}

NoneValue == <<>>

\* the server: the agents table, the five snapshot tables with their
\* AUTOINCREMENT counters, the UTC clock, the status of the last response
VARIABLES agents, db, autoinc, now, response

\* the environment of the store: requests and clock advances so far, and
\* whether a registration has replaced a row that held another name
VARIABLES events, replaced

\* the agent process: its place in main/run_once/run_continuous, the mode,
\* self.agent_id drawn at startup, the cycle number, the exit status, and of
\* the current cycle: the outcome of the registration, the endpoints a POST
\* was made to, those whose POST failed, and whether the server lost its
\* store ("during" the cycle, in the "sleep" after it, in the sleep "before"
\* it, in the cycle before it ("earlier"), or not since then ("no")
VARIABLES pc, mode, self_agent_id, cycle, exit_code, reg, attempted, failed,
          restarted, interrupted

\* where the agent stands inside the step pc names: before it ("idle"), in
\* the scanner ("scan") or in the POST ("post"); and the time the scanner
\* wrote into the payload it is about to post
VARIABLES phase, collected

\* the cleanup thread of the store: the due times of the threading.Timer
\* objects that were started and have not fired, and the runs of
\* _cleanup_old_data in progress, each with its place and its cutoff_time
VARIABLES timers, runs

\* the request handled last: its endpoint, the shape of its body, the
\* agent_id in it and what sqlite did while it was handled
VARIABLES last_req

\* a routine of the scanners taken by itself: the argument it is called
\* with and what it has returned
VARIABLES arg, out

\* the ingestion handlers that have begun and not returned, each with its
\* place and the clock values it has read
VARIABLES handlers

envVars == <<events, replaced>>

agentVars == <<pc, mode, self_agent_id, cycle, exit_code, reg, attempted, failed,
               restarted, interrupted, phase, collected>>

sweepVars == <<timers, runs>>

reqVars == <<last_req>>

scanVars == <<arg, out>>

raceVars == <<handlers>>

vars == <<agents, db, autoinc, now, response, envVars, agentVars, sweepVars,
          reqVars, scanVars, raceVars>>

\* ---- text timestamps ----

\* datetime.isoformat(): the fraction is left out when it is zero
isoformat(t) ==
    IF t % SubSecond = 0 THEN <<t \div SubSecond>>
    ELSE <<t \div SubSecond, t % SubSecond>>

\* time.strftime("%Y-%m-%dT%H:%M:%SZ"): whole seconds, literal Z
strftimeZ(t) == <<t \div SubSecond, ZED>>

\* comparison of TEXT values (BINARY collation): field by field, a proper
\* prefix is smaller
RECURSIVE TextLess(_, _)
TextLess(s1, s2) ==
    IF s2 = <<>> THEN FALSE
    ELSE IF s1 = <<>> THEN TRUE
    ELSE IF Head(s1) # Head(s2) THEN Head(s1) < Head(s2)
    ELSE TextLess(Tail(s1), Tail(s2))

\* datetime.fromisoformat(s.replace('Z', '+00:00')): kind "naive" or "aware"
\* with the time in ticks, or "error" when the call raises
fromisoformat(s) ==
    IF Len(s) = 1 /\ s[1] >= 0
    THEN [kind |-> "naive", t |-> s[1] * SubSecond]
    ELSE IF Len(s) = 2 /\ s[1] >= 0 /\ s[2] > 0 /\ s[2] < SubSecond
    THEN [kind |-> "naive", t |-> s[1] * SubSecond + s[2]]
    ELSE IF Len(s) = 2 /\ s[1] >= 0 /\ s[2] = ZED
    THEN [kind |-> "aware", t |-> s[1] * SubSecond]
    ELSE [kind |-> "error", t |-> 0]

\* ---- AgentDataStore ----

RowsOf(table, agent_id) ==
    {i \in 1..Len(db[table]) : db[table][i].agent_id = agent_id}

Inserted ==
    autoinc["system_data"] + autoinc["projects_data"] + autoinc["docker_data"]
        + autoinc["k3s_data"] + autoinc["ssh_data"]

\* a plain INSERT that keeps the row already holding the agent_id
register_agent_insert(agent_data) ==
    agents' = agents
                \cup {[agent_id |-> agent_data.agent_id,
                       agent_name |-> agent_data.agent_name,
                       registered_at |-> agent_data.registered_at,
                       last_seen |-> isoformat(now),
                       status |-> "active"]}

\* INSERT OR REPLACE INTO agents ... VALUES (..., utcnow, ..., 'active'):
\* agent_id is the primary key, the row that holds it is replaced
register_agent(agent_data) ==
    agents' = {r \in agents : r.agent_id # agent_data.agent_id}
                \cup {[agent_id |-> agent_data.agent_id,
                       agent_name |-> agent_data.agent_name,
                       registered_at |-> agent_data.registered_at,
                       last_seen |-> isoformat(now),
                       status |-> "active"]}

\* an update that inserts a row for an agent_id the table does not hold
update_agent_last_seen_upsert(agent_id) ==
    agents' = {IF r.agent_id = agent_id
               THEN [r EXCEPT !.last_seen = isoformat(now)]
               ELSE r : r \in agents}
              \cup (IF \E r \in agents : r.agent_id = agent_id THEN {}
                    ELSE {[agent_id |-> agent_id,
                           agent_name |-> agent_id,
                           registered_at |-> isoformat(now),
                           last_seen |-> isoformat(now),
                           status |-> "active"]})

\* UPDATE agents SET last_seen = ? WHERE agent_id = ?
update_agent_last_seen(agent_id) ==
    agents' = {IF r.agent_id = agent_id
               THEN [r EXCEPT !.last_seen = isoformat(now)]
               ELSE r : r \in agents}

\* a store that keeps one row for each agent: the row the agent has in the
\* table is overwritten
store_agent_data_update(table, data, insert_ok, touch_ok) ==
    IF insert_ok
    THEN /\ db' = [db EXCEPT ![table] =
                     IF RowsOf(table, data.agent_id) = {}
                     THEN Append(@, [id |-> autoinc[table] + 1,
                                     agent_id |-> data.agent_id,
                                     timestamp |-> isoformat(now),
                                     data |-> data])
                     ELSE [i \in 1..Len(@) |->
                            IF @[i].agent_id = data.agent_id
                            THEN [@[i] EXCEPT !.timestamp = isoformat(now),
                                              !.data = data]
                            ELSE @[i]]]
         /\ autoinc' = [autoinc EXCEPT ![table] = @ + 1]
         /\ IF touch_ok THEN update_agent_last_seen(data.agent_id)
            ELSE UNCHANGED agents
    ELSE UNCHANGED <<db, autoinc, agents>>

\* an insert stamped with the time the payload carries
store_agent_data_collected(table, data, insert_ok, touch_ok) ==
    IF insert_ok
    THEN /\ db' = [db EXCEPT ![table] =
                     Append(@, [id |-> autoinc[table] + 1,
                                agent_id |-> data.agent_id,
                                timestamp |-> data.timestamp,
                                data |-> data])]
         /\ autoinc' = [autoinc EXCEPT ![table] = @ + 1]
         /\ IF touch_ok THEN update_agent_last_seen(data.agent_id)
            ELSE UNCHANGED agents
    ELSE UNCHANGED <<db, autoinc, agents>>

\* INSERT INTO {table} (agent_id, timestamp, data), commit, then the
\* last_seen update on a connection of its own; an sqlite error in either
\* statement is caught and printed
store_agent_data(table, data, insert_ok, touch_ok) ==
    IF insert_ok
    THEN /\ db' = [db EXCEPT ![table] =
                     Append(@, [id |-> autoinc[table] + 1,
                                agent_id |-> data.agent_id,
                                timestamp |-> isoformat(now),
                                data |-> data])]
         /\ autoinc' = [autoinc EXCEPT ![table] = @ + 1]
         /\ IF touch_ok THEN update_agent_last_seen(data.agent_id)
            ELSE UNCHANGED agents
    ELSE UNCHANGED <<db, autoinc, agents>>

\* thresholds compared with <= in place of <
_get_agent_status_le(last_seen_str, utcnow) ==
    LET last_seen == fromisoformat(last_seen_str)
        time_diff == utcnow - last_seen.t
    IN  IF last_seen.kind # "naive" THEN "unknown"
        ELSE IF time_diff <= timedelta(0, OnlineMinutes) THEN "online"
        ELSE IF time_diff <= timedelta(0, WarningMinutes) THEN "warning"
        ELSE "offline"

_get_agent_status(last_seen_str, utcnow) ==
    LET last_seen == fromisoformat(last_seen_str)
        time_diff == utcnow - last_seen.t
    IN  IF last_seen.kind # "naive" THEN "unknown"
        ELSE IF time_diff < timedelta(0, OnlineMinutes) THEN "online"
        ELSE IF time_diff < timedelta(0, WarningMinutes) THEN "warning"
        ELSE "offline"

\* SELECT * FROM agents: one record per row, the status recomputed
get_agents_of(rows) ==
    {[agent_id |-> r.agent_id,
      agent_name |-> r.agent_name,
      registered_at |-> r.registered_at,
      last_seen |-> r.last_seen,
      status |-> _get_agent_status(r.last_seen, now)] : r \in rows}

get_agents == get_agents_of(agents)

\* every row of the agent, whatever its timestamp
LatestRows_any(table, agent_id) == RowsOf(table, agent_id)

\* rows with timestamp = (SELECT MAX(timestamp) ... WHERE t2.agent_id = t1.agent_id)
LatestRows(table, agent_id) ==
    {i \in RowsOf(table, agent_id) :
        \A j \in RowsOf(table, agent_id) :
            ~ TextLess(db[table][i].timestamp, db[table][j].timestamp)}

\* the dictionaries get_all_agent_data can return: rows of equal timestamp
\* come back in an order the query does not fix, and the last one wins
get_all_agent_data(table) ==
    LET ids == {db[table][i].agent_id : i \in 1..Len(db[table])}
    IN  {f \in [ids -> {db[table][i].data : i \in 1..Len(db[table])}] :
            \A a \in ids : \E i \in LatestRows(table, a) : f[a] = db[table][i].data}

\* a sweep that also drops the agents left without a snapshot
cleanup_old_data_agents(db_ok) ==
    LET cutoff_time == isoformat(now - timedelta(RetentionHours, 0))
        kept == [t \in TableSet |->
                    SelectSeq(db[t], LAMBDA r : ~ TextLess(r.timestamp, cutoff_time))]
    IN  /\ db' = IF db_ok THEN kept ELSE db
        /\ agents' = IF db_ok
                     THEN {r \in agents : \E t \in TableSet : \E i \in 1..Len(kept[t]) :
                                            kept[t][i].agent_id = r.agent_id}
                     ELSE agents
        /\ UNCHANGED autoinc

\* a sweep that also deletes the rows stamped exactly at the cutoff
cleanup_old_data_le(db_ok) ==
    LET cutoff_time == isoformat(now - timedelta(RetentionHours, 0))
    IN  /\ db' = IF db_ok
                 THEN [t \in TableSet |->
                         SelectSeq(db[t], LAMBDA r : TextLess(cutoff_time, r.timestamp))]
                 ELSE db
        /\ UNCHANGED <<agents, autoinc>>

\* DELETE FROM {table} WHERE timestamp < cutoff for the five tables, one
\* commit; an sqlite error is caught and nothing is deleted
cleanup_old_data(db_ok) ==
    LET cutoff_time == isoformat(now - timedelta(RetentionHours, 0))
    IN  /\ db' = IF db_ok
                 THEN [t \in TableSet |->
                         SelectSeq(db[t], LAMBDA r : ~ TextLess(r.timestamp, cutoff_time))]
                 ELSE db
        /\ UNCHANGED <<agents, autoinc>>

\* ---- presentation endpoints ----

\* the tables behind the list-shaped endpoints (/api/projects,
\* /api/docker/containers, /api/docker/images, /api/k3s/nodes, /api/k3s/pods,
\* /api/ssh/keys)
ListTables == {"projects_data", "docker_data", "k3s_data", "ssh_data"}

\* data.get('agent_name', 'Unknown')
AgentNameOf(data) ==
    IF "agent_name" \in DOMAIN data THEN data.agent_name ELSE "Unknown"

\* the lists such an endpoint can return: the records of the latest payload
\* of each agent (a payload is taken to hold one record, its body), each
\* with agent_id set to the key of the dictionary and agent_name read from
\* the payload
api_list(table) ==
    {{[record |-> f[a].body,
       agent_id |-> a,
       agent_name |-> AgentNameOf(f[a])] : a \in DOMAIN f} :
        f \in get_all_agent_data(table)}

\* SELECT * FROM agents ORDER BY last_seen DESC, as the lists it can return:
\* every row once, no row before one with a later last_seen
get_agents_lists ==
    {l \in [1..Cardinality(get_agents) -> get_agents] :
        /\ \A g \in get_agents : \E i \in DOMAIN l : l[i] = g
        /\ \A i, j \in DOMAIN l :
            i < j => ~ TextLess(l[i].last_seen, l[j].last_seen)}

\* agents_data.get(agent_id, {})
SystemOf(agents_data, agent_id) ==
    IF agent_id \in DOMAIN agents_data THEN agents_data[agent_id]
    ELSE NoneValue

\* an aggregation that goes through the agent_ids of the snapshots
get_aggregated_system_info_by_data ==
    {[i \in 1..Len(db["system_data"]) |->
        [agent |-> [agent_id |-> db["system_data"][i].agent_id],
         system |-> agents_data[db["system_data"][i].agent_id]]] :
        agents_data \in get_all_agent_data("system_data")}

\* the lists /api/system/info can return: for each agent of get_agents, in
\* its order, the agent and its entry of get_all_agent_data('system_data')
get_aggregated_system_info ==
    {[i \in DOMAIN l |->
        [agent |-> l[i],
         system |-> SystemOf(agents_data, l[i].agent_id)]] :
        agents_data \in get_all_agent_data("system_data"),
        l \in get_agents_lists}

\* ---- ingestion handlers ----

api_agent_register(agent_data, db_ok) ==
    IF db_ok
    THEN register_agent(agent_data) /\ response' = 200
    ELSE UNCHANGED agents /\ response' = 500

api_agent_data(table, data, insert_ok, touch_ok) ==
    /\ store_agent_data(table, data, insert_ok, touch_ok)
    /\ response' = 200

\* ---- environment of the store: any client, the sweep timer, the clock ----

RegistrationData(a, n) ==
    [agent_id |-> a, agent_name |-> n, registered_at |-> strftimeZ(now)]

Register ==
    \E a \in AgentIds, n \in AgentNames, db_ok \in BOOLEAN :
        /\ events < MaxEvents
        /\ api_agent_register(RegistrationData(a, n), db_ok)
        /\ events' = events + 1
        /\ replaced' = (replaced \/ (db_ok /\ \E r \in agents :
                                        r.agent_id = a /\ r.agent_name # n))
        /\ UNCHANGED <<db, autoinc, now, agentVars, sweepVars, reqVars,
                       scanVars, raceVars>>

Store ==
    \E t \in TableSet, a \in AgentIds, insert_ok \in BOOLEAN, touch_ok \in BOOLEAN :
        /\ events < MaxEvents
        /\ api_agent_data(t, [agent_id |-> a, body |-> Inserted + 1], insert_ok, touch_ok)
        /\ events' = events + 1
        /\ UNCHANGED <<now, replaced, agentVars, sweepVars, reqVars, scanVars,
                       raceVars>>

Sweep ==
    \E db_ok \in BOOLEAN :
        /\ cleanup_old_data(db_ok)
        /\ UNCHANGED <<now, events, response, replaced, agentVars, sweepVars,
                       reqVars, scanVars, raceVars>>

Tick(steps) ==
    /\ events < MaxEvents
    /\ \E d \in steps : now' = now + d
    /\ events' = events + 1
    /\ UNCHANGED <<agents, db, autoinc, response, replaced, agentVars,
                   sweepVars, reqVars, scanVars, raceVars>>

\* the clock around the retention cutoff
TickDay == Tick({1, timedelta(RetentionHours, 0)})

\* the clock around the status thresholds
TickMinutes ==
    Tick({1, timedelta(0, OnlineMinutes), timedelta(0, WarningMinutes - OnlineMinutes)})

\* threading.Timer(3600, self._cleanup_old_data) and its start()
StartTimer(pending) == Append(pending, now + timedelta(SweepHours, 0))

\* no request was handled yet
NoRequest == [endpoint |-> "none", body |-> "none", agent_id |-> "none", db |-> "none"]

StoreInit ==
    /\ agents = {}
    /\ db = [t \in TableSet |-> <<>>]
    /\ autoinc = [t \in TableSet |-> 0]
    /\ now = timedelta(RetentionHours, 0)
    /\ response = 0
    /\ events = 0
    /\ replaced = FALSE
    /\ timers = StartTimer(<<>>)
    /\ runs = <<>>
    /\ last_req = NoRequest
    /\ handlers = <<>>

\* no agent process is running
Init ==
    /\ StoreInit
    /\ pc = "none"
    /\ mode = "none"
    /\ self_agent_id = "a1"
    /\ cycle = 0
    /\ exit_code = -1
    /\ reg = "none"
    /\ attempted = {}
    /\ failed = {}
    /\ restarted = "no"
    /\ interrupted = FALSE
    /\ phase = "idle"
    /\ collected = 0
    /\ arg = NoneValue
    /\ out = NoneValue

Next == Register \/ Store \/ Sweep \/ TickDay

Spec == Init /\ [][Next]_vars

StatusNext == Register \/ Store \/ TickMinutes

StatusSpec == Init /\ [][StatusNext]_vars

\* ---- the ingestion handlers, any body, any answer of sqlite ----

\* the body of a POST: a JSON object with the fields the handler reads
\* ("object"), a JSON object without agent_id or, for the registration,
\* without agent_name, JSON that is no object (null, a list, a string), and
\* bytes that are no JSON
Bodies == {"object", "no_agent_id", "no_agent_name", "not_object", "not_json"}

\* the fields the store subscripts: agent_id in store_agent_data, all the
\* identity fields in register_agent
Malformed(endpoint) ==
    IF endpoint = "register" THEN Bodies \ {"object"}
    ELSE Bodies \ {"object", "no_agent_name"}

\* sqlite3.connect raises ("connect_error"), the INSERT or its commit raises
\* ("insert_error"), or neither
DbOutcomes == {"ok", "connect_error", "insert_error"}

\* POST /api/agents/register: request.get_json() raises on bytes that are
\* no JSON and sqlite3.connect is called before the try of register_agent,
\* both reach the except of the handler; a KeyError or TypeError of
\* agent_data[...] is caught inside register_agent, which returns False
handle_register(body, agent_data, outcome) ==
    IF body = "not_json" \/ outcome = "connect_error"
    THEN UNCHANGED agents /\ response' = 400
    ELSE IF body \in Malformed("register")
    THEN UNCHANGED agents /\ response' = 500
    ELSE api_agent_register(agent_data, outcome = "ok")

\* POST /api/agents/<kind>: as above, but store_agent_data catches the
\* KeyError or TypeError of data['agent_id'] and returns nothing, and the
\* handler answers with success
handle_data(table, body, data, outcome, touch_ok) ==
    IF body = "not_json" \/ outcome = "connect_error"
    THEN UNCHANGED <<agents, db, autoinc>> /\ response' = 400
    ELSE IF body \in Malformed(table)
    THEN UNCHANGED <<agents, db, autoinc>> /\ response' = 200
    ELSE api_agent_data(table, data, outcome = "ok", touch_ok)

IngestRegister ==
    \E a \in AgentIds, body \in Bodies, outcome \in DbOutcomes :
        /\ events < MaxEvents
        /\ handle_register(body, RegistrationData(a, "n1"), outcome)
        /\ last_req' = [endpoint |-> "register", body |-> body,
                        agent_id |-> a, db |-> outcome]
        /\ events' = events + 1
        /\ UNCHANGED <<db, autoinc, now, replaced, agentVars, sweepVars,
                       scanVars, raceVars>>

IngestStore ==
    \E t \in TableSet, a \in AgentIds, body \in Bodies \ {"no_agent_name"},
       outcome \in DbOutcomes, touch_ok \in BOOLEAN :
        /\ events < MaxEvents
        /\ handle_data(t, body, [agent_id |-> a, body |-> Inserted + 1],
                       outcome, touch_ok)
        /\ last_req' = [endpoint |-> t, body |-> body,
                        agent_id |-> a, db |-> outcome]
        /\ events' = events + 1
        /\ UNCHANGED <<now, replaced, agentVars, sweepVars, scanVars, raceVars>>

\* the clock between two requests
TickSecond == Tick({1, SubSecond})

IngestNext == IngestRegister \/ IngestStore \/ TickSecond

IngestSpec == Init /\ [][IngestNext]_vars

\* ---- the cleanup thread, statement by statement ----

Remove(seq, i) == SubSeq(seq, 1, i - 1) \o SubSeq(seq, i + 1, Len(seq))

\* a timer that starts its successor before the sweep, not after it
timer_fire_first ==
    \E i \in DOMAIN timers :
        /\ now >= timers[i]
        /\ timers' = StartTimer(Remove(timers, i))
        /\ runs' = Append(runs,
                [at |-> "begin",
                 cutoff_time |-> isoformat(now - timedelta(RetentionHours, 0)),
                 inserted |-> Inserted])
        /\ UNCHANGED <<agents, db, autoinc, now, response, envVars, agentVars,
                       reqVars, scanVars, raceVars>>

\* a timer is due: its thread enters _cleanup_old_data and computes
\* cutoff_time (inserted: the rows the tables had received by then)
timer_fire ==
    \E i \in DOMAIN timers :
        /\ now >= timers[i]
        /\ timers' = Remove(timers, i)
        /\ runs' = Append(runs,
                [at |-> "begin",
                 cutoff_time |-> isoformat(now - timedelta(RetentionHours, 0)),
                 inserted |-> Inserted])
        /\ UNCHANGED <<agents, db, autoinc, now, response, envVars, agentVars,
                       reqVars, scanVars, raceVars>>

\* conn = sqlite3.connect(self.db_path), before the try: when it raises, the
\* exception leaves _cleanup_old_data and the thread ends
cleanup_connect ==
    \E i \in DOMAIN runs, opened \in BOOLEAN :
        /\ runs[i].at = "begin"
        /\ runs' = IF opened THEN [runs EXCEPT ![i].at = "connected"]
                   ELSE Remove(runs, i)
        /\ UNCHANGED <<agents, db, autoinc, now, response, envVars, agentVars,
                       timers, reqVars, scanVars, raceVars>>

\* the five DELETE statements and the commit; an sqlite error is caught and
\* printed, nothing is deleted; finally: conn.close()
cleanup_delete ==
    \E i \in DOMAIN runs, db_ok \in BOOLEAN :
        /\ runs[i].at = "connected"
        /\ db' = IF db_ok
                 THEN [t \in TableSet |->
                         SelectSeq(db[t], LAMBDA r :
                             ~ TextLess(r.timestamp, runs[i].cutoff_time))]
                 ELSE db
        /\ runs' = [runs EXCEPT ![i].at = "closed"]
        /\ UNCHANGED <<agents, autoinc, now, response, envVars, agentVars,
                       timers, reqVars, scanVars, raceVars>>

\* the last statements of _cleanup_old_data: the next timer is created and
\* started, the thread ends
cleanup_reschedule ==
    \E i \in DOMAIN runs :
        /\ runs[i].at = "closed"
        /\ runs' = Remove(runs, i)
        /\ timers' = StartTimer(timers)
        /\ UNCHANGED <<agents, db, autoinc, now, response, envVars, agentVars,
                       reqVars, scanVars, raceVars>>

\* the clock around the period of the timer and the retention cutoff
TickHour == Tick({timedelta(SweepHours, 0), timedelta(RetentionHours, 0)})

SweepNext ==
    \/ timer_fire
    \/ cleanup_connect
    \/ cleanup_delete
    \/ cleanup_reschedule
    \/ Store
    \/ TickHour

SweepSpec == Init /\ [][SweepNext]_vars

\* ---- SimpleAgent ----

Interval == 30

\* the endpoints run_once posts to, in its order, and their tables
Endpoints == <<"system", "projects", "docker", "ssh">>

TableOf(endpoint) ==
    CASE endpoint = "system" -> "system_data"
      [] endpoint = "projects" -> "projects_data"
      [] endpoint = "docker" -> "docker_data"
      [] endpoint = "k3s" -> "k3s_data"
      [] endpoint = "ssh" -> "ssh_data"

\* what becomes of a POST: answered with 200 ("ok"), answered with another
\* status by the server or on the way ("rejected"), not delivered
\* ("unreachable"), or handled by the server with the answer lost ("timeout")
Net == {"ok", "rejected", "unreachable", "timeout"}

Delivered(net) == net \in {"ok", "timeout"}

\* after endpoint number i comes the next one, or the end of run_once
After(i) == IF i < Len(Endpoints) THEN Endpoints[i + 1] ELSE "return_true"

\* a failed POST ends the cycle
NextPc_abort(i, sent) == IF sent THEN After(i) ELSE "return_false"

\* run_once drops the result of send_data and goes on to the next scanner
NextPc(i, sent) == After(i)

\* time.strftime as the payload is built: at this very step when the step
\* is taken as a whole, at the end of the scanner when it is taken in parts
PayloadTime == strftimeZ(IF phase = "post" THEN collected ELSE now)

\* the reads of collect_system_info that can raise: they stand for the
\* psutil and os calls inside its dictionary
Metrics == {"cpu_percent", "virtual_memory", "disk_usage"}

\* what the scanners return: collect_system_info names the agent, the other
\* scanners do not; each carries the time of its collection
Payload(endpoint) ==
    IF endpoint = "system"
    THEN [agent_id |-> self_agent_id, agent_name |-> "n1",
          timestamp |-> PayloadTime, metrics |-> Metrics,
          body |-> Inserted + 1]
    ELSE [agent_id |-> self_agent_id,
          timestamp |-> PayloadTime, body |-> Inserted + 1]

\* a scanner that leaves out the metric it could not read
collect_system_info_partial(failed_read) ==
    IF failed_read = "none" THEN Payload("system")
    ELSE [Payload("system") EXCEPT !.metrics = Metrics \ {failed_read}]

\* collect_system_info: the dictionary is built inside one try, the first
\* read that raises ends it and {} is returned
collect_system_info(failed_read) ==
    IF failed_read = "none" THEN Payload("system") ELSE NoneValue

\* the scanner of an endpoint; the scanners other than collect_system_info
\* answer an error of theirs with a payload that says so
collect(endpoint, failed_read) ==
    IF endpoint = "system" THEN collect_system_info(failed_read)
    ELSE Payload(endpoint)

\* the registration failed and run_once goes on to the scanners all the same
run_once_register_continue ==
    /\ pc = "register"
    /\ \E net \in Net, db_ok \in BOOLEAN :
        LET outcome == IF net = "ok" /\ ~ db_ok THEN "rejected" ELSE net
        IN  /\ IF Delivered(net)
               THEN api_agent_register(
                        [agent_id |-> self_agent_id, agent_name |-> "n1",
                         registered_at |-> PayloadTime], db_ok)
               ELSE UNCHANGED <<agents, response>>
            /\ reg' = outcome
            /\ pc' = Endpoints[1]
    /\ phase' = "idle"
    /\ UNCHANGED <<db, autoinc, now, envVars, sweepVars, reqVars, mode,
                   self_agent_id, cycle, exit_code, attempted, failed,
                   restarted, interrupted, collected, scanVars, raceVars>>

\* run_once up to its first return: SimpleAgent.register_agent posts the
\* identity, any status but 200 and any exception make it return False
run_once_register ==
    /\ pc = "register"
    /\ \E net \in Net, db_ok \in BOOLEAN :
        LET outcome == IF net = "ok" /\ ~ db_ok THEN "rejected" ELSE net
        IN  /\ IF Delivered(net)
               THEN api_agent_register(
                        [agent_id |-> self_agent_id, agent_name |-> "n1",
                         registered_at |-> PayloadTime], db_ok)
               ELSE UNCHANGED <<agents, response>>
            /\ reg' = outcome
            /\ pc' = IF outcome = "ok" THEN Endpoints[1] ELSE "return_false"
    /\ phase' = "idle"
    /\ UNCHANGED <<db, autoinc, now, envVars, sweepVars, reqVars, mode,
                   self_agent_id, cycle, exit_code, attempted, failed,
                   restarted, interrupted, collected, scanVars, raceVars>>

\* one collect-and-send step of run_once: the payload is posted when it is
\* not empty (only collect_system_info can return {}, when a read of its
\* metrics raises), send_data turns every failure into False and run_once
\* goes on
run_once_send(i) ==
    /\ pc = Endpoints[i]
    /\ \E failed_read \in Metrics \cup {"none"} :
        IF collect(Endpoints[i], failed_read) = NoneValue
        THEN /\ UNCHANGED <<agents, db, autoinc, response, attempted, failed>>
             /\ pc' = NextPc(i, TRUE)
        ELSE \E net \in Net, insert_ok \in BOOLEAN, touch_ok \in BOOLEAN :
                /\ IF Delivered(net)
                   THEN api_agent_data(TableOf(Endpoints[i]),
                            collect(Endpoints[i], failed_read),
                            insert_ok, touch_ok)
                   ELSE UNCHANGED <<agents, db, autoinc, response>>
                /\ attempted' = attempted \cup {Endpoints[i]}
                /\ failed' = IF net = "ok" THEN failed ELSE failed \cup {Endpoints[i]}
                /\ pc' = NextPc(i, net = "ok")
    /\ phase' = "idle"
    /\ UNCHANGED <<now, envVars, sweepVars, reqVars, mode, self_agent_id, cycle,
                   exit_code, reg, restarted, interrupted, collected, scanVars,
                   raceVars>>

\* an exit status that also looks at the data POSTs of the cycle
main_exit_by_posts ==
    /\ mode = "once"
    /\ pc \in {"return_true", "return_false"}
    /\ pc' = "exited"
    /\ exit_code' = IF pc = "return_true" /\ failed = {} THEN 0 ELSE 1
    /\ UNCHANGED <<agents, db, autoinc, now, response, envVars, sweepVars,
                   reqVars, mode, self_agent_id, cycle, reg, attempted, failed,
                   restarted, interrupted, phase, collected, scanVars,
                   raceVars>>

\* main, single-shot: sys.exit(0 if success else 1)
main_exit ==
    /\ mode = "once"
    /\ pc \in {"return_true", "return_false"}
    /\ pc' = "exited"
    /\ exit_code' = IF pc = "return_true" THEN 0 ELSE 1
    /\ UNCHANGED <<agents, db, autoinc, now, response, envVars, sweepVars,
                   reqVars, mode, self_agent_id, cycle, reg, attempted, failed,
                   restarted, interrupted, phase, collected, scanVars,
                   raceVars>>

\* the loop ends when run_once returns False
run_continuous_sleep_stop ==
    /\ mode = "continuous"
    /\ pc \in {"return_true", "return_false"}
    /\ pc' = IF pc = "return_true" THEN "sleep" ELSE "exited"
    /\ UNCHANGED <<agents, db, autoinc, now, response, envVars, sweepVars,
                   reqVars, mode, self_agent_id, cycle, exit_code, reg,
                   attempted, failed, restarted, interrupted, phase, collected,
                   scanVars, raceVars>>

\* run_continuous: the result of run_once is dropped, the loop sleeps
run_continuous_sleep ==
    /\ mode = "continuous"
    /\ pc \in {"return_true", "return_false"}
    /\ pc' = "sleep"
    /\ UNCHANGED <<agents, db, autoinc, now, response, envVars, sweepVars,
                   reqVars, mode, self_agent_id, cycle, exit_code, reg,
                   attempted, failed, restarted, interrupted, phase, collected,
                   scanVars, raceVars>>

\* a loop that remembers a registration and skips it in the later cycles
run_continuous_next_cached ==
    /\ pc = "sleep"
    /\ cycle < MaxCycles
    /\ now' = now + Interval * SubSecond
    /\ cycle' = cycle + 1
    /\ pc' = IF reg = "ok" THEN Endpoints[1] ELSE "register"
    /\ reg' = IF reg = "ok" THEN "ok" ELSE "none"
    /\ attempted' = {}
    /\ failed' = {}
    /\ restarted' = CASE restarted = "sleep" -> "before"
                       [] restarted = "during" -> "earlier"
                       [] OTHER -> "no"
    /\ UNCHANGED <<agents, db, autoinc, response, envVars, sweepVars, reqVars,
                   mode, self_agent_id, exit_code, interrupted, phase,
                   collected, scanVars, raceVars>>

\* run_continuous: time.sleep(interval) ends and run_once is called again
run_continuous_next ==
    /\ pc = "sleep"
    /\ cycle < MaxCycles
    /\ now' = now + Interval * SubSecond
    /\ cycle' = cycle + 1
    /\ pc' = "register"
    /\ reg' = "none"
    /\ attempted' = {}
    /\ failed' = {}
    /\ restarted' = CASE restarted = "sleep" -> "before"
                       [] restarted = "during" -> "earlier"
                       [] OTHER -> "no"
    /\ UNCHANGED <<agents, db, autoinc, response, envVars, sweepVars, reqVars,
                   mode, self_agent_id, exit_code, interrupted, phase,
                   collected, scanVars, raceVars>>

\* Ctrl+C, wherever the agent stands: the KeyboardInterrupt is raised at
\* once, both modes end with status 0
KeyboardInterrupt ==
    /\ pc # "exited"
    /\ pc' = "exited"
    /\ exit_code' = 0
    /\ interrupted' = TRUE
    /\ UNCHANGED <<agents, db, autoinc, now, response, envVars, sweepVars,
                   reqVars, mode, self_agent_id, cycle, reg, attempted, failed,
                   restarted, phase, collected, scanVars, raceVars>>

\* the server comes back with a fresh database file
ServerRestart ==
    /\ pc # "exited"
    /\ agents # {} \/ Inserted > 0
    /\ agents' = {}
    /\ db' = [t \in TableSet |-> <<>>]
    /\ autoinc' = [t \in TableSet |-> 0]
    /\ restarted' = IF pc = "sleep" THEN "sleep" ELSE "during"
    /\ UNCHANGED <<now, response, envVars, sweepVars, reqVars, pc, mode,
                   self_agent_id, cycle, exit_code, reg, attempted, failed,
                   interrupted, phase, collected, scanVars, raceVars>>

\* main with --once or without, against a server with no prior state
AgentInit ==
    /\ StoreInit
    /\ pc = "register"
    /\ mode \in {"once", "continuous"}
    /\ self_agent_id \in AgentIds
    /\ cycle = 1
    /\ exit_code = -1
    /\ reg = "none"
    /\ attempted = {}
    /\ failed = {}
    /\ restarted = "no"
    /\ interrupted = FALSE
    /\ phase = "idle"
    /\ collected = 0
    /\ arg = NoneValue
    /\ out = NoneValue

AgentStep ==
    \/ run_once_register
    \/ \E i \in 1..Len(Endpoints) : run_once_send(i)
    \/ main_exit
    \/ run_continuous_sleep
    \/ run_continuous_next

AgentNext == AgentStep \/ KeyboardInterrupt \/ ServerRestart

AgentSpec == AgentInit /\ [][AgentNext]_vars

\* the agent is one sequential process: every POST ends within its timeout
\* and every sleep ends
FairAgentSpec == AgentSpec /\ WF_vars(AgentStep)

\* ---- one cycle, each step in its parts ----

StepPcs == {"register"} \cup {Endpoints[i] : i \in 1..Len(Endpoints)}

\* the step pc names begins: SimpleAgent.register_agent starts to build the
\* identity, a collect_* scanner starts to scan
step_scan ==
    /\ pc \in StepPcs
    /\ phase = "idle"
    /\ phase' = "scan"
    /\ UNCHANGED <<agents, db, autoinc, now, response, envVars, sweepVars,
                   reqVars, pc, mode, self_agent_id, cycle, exit_code, reg,
                   attempted, failed, restarted, interrupted, collected,
                   scanVars, raceVars>>

\* the payload is built, time.strftime is read, requests.post is entered
step_collect ==
    /\ pc \in StepPcs
    /\ phase = "scan"
    /\ phase' = "post"
    /\ collected' = now
    /\ UNCHANGED <<agents, db, autoinc, now, response, envVars, sweepVars,
                   reqVars, pc, mode, self_agent_id, cycle, exit_code, reg,
                   attempted, failed, restarted, interrupted, scanVars,
                   raceVars>>

\* the POST is answered or given up, the step ends
step_finish ==
    /\ phase = "post"
    /\ \/ run_once_register
       \/ \E i \in 1..Len(Endpoints) : run_once_send(i)

\* a second goes by between the reading of the timestamp and the request
\* (psutil.cpu_percent alone blocks for a second after time.strftime)
StepTick ==
    /\ pc \in StepPcs
    /\ phase = "post"
    /\ now = collected
    /\ events < MaxEvents
    /\ now' = now + SubSecond
    /\ events' = events + 1
    /\ UNCHANGED <<agents, db, autoinc, response, replaced, agentVars,
                   sweepVars, reqVars, scanVars, raceVars>>

\* Ctrl+C while requests.post waits for the answer of a request the server
\* has handled: the KeyboardInterrupt leaves send_data, which catches
\* Exception only, and ends the process
KeyboardInterrupt_post ==
    /\ pc \in StepPcs
    /\ phase = "post"
    /\ IF pc = "register"
       THEN /\ \E db_ok \in BOOLEAN :
                api_agent_register(
                    [agent_id |-> self_agent_id, agent_name |-> "n1",
                     registered_at |-> PayloadTime], db_ok)
            /\ UNCHANGED <<db, autoinc>>
       ELSE \E insert_ok \in BOOLEAN, touch_ok \in BOOLEAN :
                api_agent_data(TableOf(pc), Payload(pc), insert_ok, touch_ok)
    /\ pc' = "exited"
    /\ exit_code' = 0
    /\ interrupted' = TRUE
    /\ UNCHANGED <<now, envVars, sweepVars, reqVars, mode, self_agent_id, cycle,
                   reg, attempted, failed, restarted, phase, collected,
                   scanVars, raceVars>>

\* one agent, one cycle, against a server with no prior state
StepInit ==
    /\ AgentInit
    /\ self_agent_id = "a1"

StepNext ==
    \/ step_scan
    \/ step_collect
    \/ step_finish
    \/ StepTick
    \/ main_exit
    \/ run_continuous_sleep
    \/ KeyboardInterrupt
    \/ KeyboardInterrupt_post

StepSpec == StepInit /\ [][StepNext]_vars

\* ---- project type detection ----

\* A file name is the sequence of its parts between the dots: <<"go", "mod">>
\* is go.mod, <<"", "py">> is .py, <<"Dockerfile">> has no dot.

\* str.lower(), on the parts that have capitals
lower_part(part) ==
    CASE part = "Dockerfile" -> "dockerfile"
      [] part = "Cargo" -> "cargo"
      [] part = "Pipfile" -> "pipfile"
      [] part = "Gemfile" -> "gemfile"
      [] part = "CMakeLists" -> "cmakelists"
      [] part = "MAIN" -> "main"
      [] part = "PY" -> "py"
      [] part = "README" -> "readme"
      [] OTHER -> part

lower(name) == [i \in DOMAIN name |-> lower_part(name[i])]

\* PurePath.suffix: from the last dot on, and empty when the name has no
\* dot, when its only dot is the first character or the last one
suffix(name) ==
    IF Len(name) < 2 \/ name[Len(name)] = "" \/ (Len(name) = 2 /\ name[1] = "")
    THEN <<>>
    ELSE <<"", name[Len(name)]>>

\* type_indicators of the agent, in the order of the dictionary
agent_type_indicators ==
    << [proj_type |-> "python",
        indicators |-> << <<"", "py">>, <<"requirements", "txt">>,
                          <<"setup", "py">>, <<"pyproject", "toml">> >>],
       [proj_type |-> "javascript",
        indicators |-> << <<"", "js">>, <<"", "ts">>, <<"package", "json">> >>],
       [proj_type |-> "java",
        indicators |-> << <<"", "java">>, <<"pom", "xml">>,
                          <<"build", "gradle">> >>],
       [proj_type |-> "go",
        indicators |-> << <<"", "go">>, <<"go", "mod">> >>],
       [proj_type |-> "rust",
        indicators |-> << <<"", "rs">>, <<"Cargo", "toml">> >>],
       [proj_type |-> "docker",
        indicators |-> << <<"Dockerfile">>, <<"docker-compose", "yml">> >>] >>

\* type_indicators of the server's ProjectFinder
server_type_indicators ==
    << [proj_type |-> "python",
        indicators |-> << <<"", "py">>, <<"requirements", "txt">>,
                          <<"setup", "py">>, <<"pyproject", "toml">>,
                          <<"Pipfile">> >>],
       [proj_type |-> "javascript",
        indicators |-> << <<"", "js">>, <<"", "ts">>, <<"package", "json">>,
                          <<"node_modules">> >>],
       [proj_type |-> "java",
        indicators |-> << <<"", "java">>, <<"pom", "xml">>,
                          <<"build", "gradle">>, <<"", "gradle">> >>],
       [proj_type |-> "csharp",
        indicators |-> << <<"", "cs">>, <<"", "csproj">>, <<"", "sln">> >>],
       [proj_type |-> "rust",
        indicators |-> << <<"", "rs">>, <<"Cargo", "toml">>,
                          <<"Cargo", "lock">> >>],
       [proj_type |-> "go",
        indicators |-> << <<"", "go">>, <<"go", "mod">>, <<"go", "sum">> >>],
       [proj_type |-> "php",
        indicators |-> << <<"", "php">>, <<"composer", "json">> >>],
       [proj_type |-> "ruby",
        indicators |-> << <<"", "rb">>, <<"Gemfile">> >>],
       [proj_type |-> "cpp",
        indicators |-> << <<"", "cpp">>, <<"", "cc">>, <<"", "cxx">>,
                          <<"", "hpp">>, <<"", "h">>,
                          <<"CMakeLists", "txt">> >>],
       [proj_type |-> "docker",
        indicators |-> << <<"Dockerfile">>, <<"docker-compose", "yml">> >>],
       [proj_type |-> "terraform",
        indicators |-> << <<"", "tf">>, <<"", "tfvars">> >>] >>

\* the body of the innermost loop: what one indicator appends for one file
indicator_hit(proj_type, indicator, file_name, file_ext) ==
    IF indicator[1] = "" /\ file_ext = indicator THEN <<proj_type>>
    ELSE IF indicator[1] # "" /\ file_name = lower(indicator) THEN <<proj_type>>
    ELSE <<>>

\* for indicator in indicators, from the k-th on
RECURSIVE indicators_loop(_, _, _, _)
indicators_loop(entry, k, file_name, file_ext) ==
    IF k > Len(entry.indicators) THEN <<>>
    ELSE indicator_hit(entry.proj_type, entry.indicators[k], file_name, file_ext)
            \o indicators_loop(entry, k + 1, file_name, file_ext)

\* for proj_type, indicators in type_indicators.items(), from the k-th on
RECURSIVE types_loop(_, _, _, _)
types_loop(type_indicators, k, file_name, file_ext) ==
    IF k > Len(type_indicators) THEN <<>>
    ELSE indicators_loop(type_indicators[k], 1, file_name, file_ext)
            \o types_loop(type_indicators, k + 1, file_name, file_ext)

\* for file_path in path.iterdir() (path.rglob('*') when recursive), from the
\* k-th on: what is appended to detected_types
RECURSIVE files_loop(_, _, _, _)
files_loop(type_indicators, recursive, files, k) ==
    IF k > Len(files) THEN <<>>
    ELSE (IF files[k].is_file /\ (recursive \/ ~ files[k].nested)
          THEN types_loop(type_indicators, 1, lower(files[k].name),
                          suffix(lower(files[k].name)))
          ELSE <<>>)
            \o files_loop(type_indicators, recursive, files, k + 1)

\* a detection that keeps the first type it finds
_detect_project_type_first(type_indicators, recursive, files) ==
    LET detected_types == files_loop(type_indicators, recursive, files, 1)
    IN  IF detected_types # <<>> THEN {detected_types[1]} ELSE {"unknown"}

\* list(set(detected_types)) if detected_types else ['unknown']
_detect_project_type(type_indicators, recursive, files) ==
    LET detected_types == files_loop(type_indicators, recursive, files, 1)
    IN  IF detected_types # <<>>
        THEN {detected_types[i] : i \in DOMAIN detected_types}
        ELSE {"unknown"}

\* the entries a project directory is filled from: files and a directory
\* of the directory itself, and files of a subdirectory (nested)
DirEntries ==
    {[name |-> <<"go", "mod">>, is_file |-> TRUE, nested |-> FALSE],
     [name |-> <<"package", "json">>, is_file |-> TRUE, nested |-> FALSE],
     [name |-> <<"requirements", "txt">>, is_file |-> TRUE, nested |-> FALSE],
     [name |-> <<"MAIN", "PY">>, is_file |-> TRUE, nested |-> FALSE],
     [name |-> <<"Dockerfile">>, is_file |-> TRUE, nested |-> FALSE],
     [name |-> <<"README", "md">>, is_file |-> TRUE, nested |-> FALSE],
     [name |-> <<"", "py">>, is_file |-> TRUE, nested |-> FALSE],
     [name |-> <<"build", "gradle">>, is_file |-> TRUE, nested |-> FALSE],
     [name |-> <<"node_modules">>, is_file |-> FALSE, nested |-> FALSE],
     [name |-> <<"lib", "rs">>, is_file |-> TRUE, nested |-> TRUE]}

\* the orders in which a directory can be listed
Listings(entries) ==
    {l \in [1..Cardinality(entries) -> entries] :
        \A e \in entries : \E i \in DOMAIN l : l[i] = e}

\* SimpleAgent._detect_project_type(path)
agent_detect ==
    /\ \E files \in Listings(arg) :
        out' = [routine |-> "agent",
                types |-> _detect_project_type(agent_type_indicators, FALSE, files)]
    /\ UNCHANGED <<agents, db, autoinc, now, response, envVars, agentVars,
                   sweepVars, reqVars, arg, raceVars>>

\* ProjectFinder._detect_project_type(path)
server_detect ==
    /\ \E files \in Listings(arg) :
        out' = [routine |-> "server",
                types |-> _detect_project_type(server_type_indicators, TRUE, files)]
    /\ UNCHANGED <<agents, db, autoinc, now, response, envVars, agentVars,
                   sweepVars, reqVars, arg, raceVars>>

\* any project directory of up to MaxFiles entries
DetectInit ==
    /\ StoreInit
    /\ pc = "none"
    /\ mode = "none"
    /\ self_agent_id = "a1"
    /\ cycle = 0
    /\ exit_code = -1
    /\ reg = "none"
    /\ attempted = {}
    /\ failed = {}
    /\ restarted = "no"
    /\ interrupted = FALSE
    /\ phase = "idle"
    /\ collected = 0
    /\ arg \in {entries \in SUBSET DirEntries : Cardinality(entries) <= MaxFiles}
    /\ out = NoneValue

DetectNext == agent_detect \/ server_detect

DetectSpec == DetectInit /\ [][DetectNext]_vars

\* ---- SSH key types ----

\* A key file name and the patterns looked for in it are sequences of
\* characters.

\* str.lower() on one character
lower_char(c) ==
    CASE c = "I" -> "i" [] c = "D" -> "d" [] c = "E" -> "e" [] c = "C" -> "c"
      [] c = "S" -> "s" [] c = "A" -> "a" [] OTHER -> c

lower_name(name) == [i \in DOMAIN name |-> lower_char(name[i])]

\* pattern in name
Contains(name, pattern) ==
    \E i \in 1..(Len(name) - Len(pattern) + 1) :
        SubSeq(name, i, i + Len(pattern) - 1) = pattern

RSA_ == <<"r", "s", "a">>
ED25519_ == <<"e", "d", "2", "5", "5", "1", "9">>
ECDSA_ == <<"e", "c", "d", "s", "a">>
DSA_ == <<"d", "s", "a">>

\* SimpleAgent._determine_key_type(key_path): the name only
agent_determine_key_type(key_name) ==
    LET name == lower_name(key_name)
    IN  IF Contains(name, RSA_) THEN "RSA"
        ELSE IF Contains(name, ED25519_) THEN "Ed25519"
        ELSE IF Contains(name, ECDSA_) THEN "ECDSA"
        ELSE IF Contains(name, DSA_) THEN "DSA"
        ELSE "Unknown"

\* SSHKeyManager._determine_key_type(private_key_path, public_key_path):
\* the first word of the public key when there is one and it is a known
\* one, else the name
server_determine_key_type(key_name, public_key) ==
    LET name == lower_name(key_name)
    IN  IF public_key = "ssh-rsa" THEN "RSA"
        ELSE IF public_key = "ssh-dss" THEN "DSA"
        ELSE IF public_key = "ssh-ed25519" THEN "Ed25519"
        ELSE IF public_key = "ecdsa-sha2" THEN "ECDSA"
        ELSE IF Contains(name, RSA_) THEN "RSA"
        ELSE IF Contains(name, DSA_) THEN "DSA"
        ELSE IF Contains(name, ED25519_) THEN "Ed25519"
        ELSE IF Contains(name, ECDSA_) THEN "ECDSA"
        ELSE "Unknown"

\* names of private key files
KeyNames ==
    {<<"i", "d", "_", "r", "s", "a">>,
     <<"i", "d", "_", "d", "s", "a">>,
     <<"i", "d", "_", "e", "c", "d", "s", "a">>,
     <<"i", "d", "_", "e", "d", "2", "5", "5", "1", "9">>,
     <<"I", "D", "_", "E", "C", "D", "S", "A">>,
     <<"i", "d", "_", "k", "e", "y">>,
     <<"e", "c", "d", "s", "a", "_", "r", "s", "a">>,
     <<"d", "s", "a", "_", "e", "d", "2", "5", "5", "1", "9">>,
     <<"g", "i", "t", "h", "u", "b">>}

\* how the content of the paired .pub file starts; "none": there is no
\* such file
PublicKeys ==
    {"none", "ssh-rsa", "ssh-dss", "ssh-ed25519", "ecdsa-sha2", "other"}

agent_key_type ==
    /\ out' = [routine |-> "agent",
               type |-> agent_determine_key_type(arg.name)]
    /\ UNCHANGED <<agents, db, autoinc, now, response, envVars, agentVars,
                   sweepVars, reqVars, arg, raceVars>>

server_key_type ==
    /\ out' = [routine |-> "server",
               type |-> server_determine_key_type(arg.name, arg.public_key)]
    /\ UNCHANGED <<agents, db, autoinc, now, response, envVars, agentVars,
                   sweepVars, reqVars, arg, raceVars>>

\* any private key, with or without its public key
KeyInit ==
    /\ StoreInit
    /\ pc = "none"
    /\ mode = "none"
    /\ self_agent_id = "a1"
    /\ cycle = 0
    /\ exit_code = -1
    /\ reg = "none"
    /\ attempted = {}
    /\ failed = {}
    /\ restarted = "no"
    /\ interrupted = FALSE
    /\ phase = "idle"
    /\ collected = 0
    /\ arg \in [name : KeyNames, public_key : PublicKeys]
    /\ out = NoneValue

KeyNext == agent_key_type \/ server_key_type

KeySpec == KeyInit /\ [][KeyNext]_vars

\* ---- size and file count of a project ----

MiB == 1024 * 1024
SizeCeiling == 500 * MiB
CountLimit == 10000

\* A directory tree is the sequence of its directories in the order of
\* os.walk; a directory is a sequence of groups of files, n files of one
\* size each, size -1 for files whose os.path.getsize raises OSError.
Unreadable == -1

Directories ==
    {<<>>,
     <<[n |-> 1, size |-> 6000]>>,
     <<[n |-> 1, size |-> 300 * MiB]>>,
     <<[n |-> 6000, size |-> 100]>>,
     <<[n |-> 1, size |-> Unreadable], [n |-> 1, size |-> 131072]>>}

\* len(filenames)
RECURSIVE FilesIn(_, _)
FilesIn(directory, k) ==
    IF k > Len(directory) THEN 0
    ELSE directory[k].n + FilesIn(directory, k + 1)

\* for filename in filenames: total_size += os.path.getsize(file_path), a
\* file whose getsize raises is passed over
RECURSIVE BytesIn(_, _)
BytesIn(directory, k) ==
    IF k > Len(directory) THEN 0
    ELSE (IF directory[k].size = Unreadable THEN 0
          ELSE directory[k].n * directory[k].size)
            + BytesIn(directory, k + 1)

\* a size in MB cut to two decimals, in hundredths of a MB
Floor2(total_size) ==
    (total_size \div MiB) * 100 + ((total_size % MiB) * 100) \div MiB

\* round(total_size / (1024 * 1024), 2) in hundredths of a MB: to the
\* nearest hundredth, an exact half to the even one
Round2(total_size) ==
    LET rest == ((total_size % MiB) * 100) % MiB
    IN  Floor2(total_size)
            + (IF 2 * rest > MiB \/ (2 * rest = MiB /\ Floor2(total_size) % 2 = 1)
               THEN 1 ELSE 0)

\* _calculate_size and _count_files are entered
scan_start ==
    /\ out = NoneValue
    /\ \E routine \in {"_calculate_size", "_count_files"} :
        out' = [routine |-> routine, visited |-> 0, acc |-> 0,
                done |-> FALSE, value |-> 0]
    /\ UNCHANGED <<agents, db, autoinc, now, response, envVars, agentVars,
                   sweepVars, reqVars, arg, raceVars>>

\* a size scan that never leaves the loop early
_calculate_size_walk_all ==
    /\ out # NoneValue
    /\ out.routine = "_calculate_size"
    /\ ~ out.done
    /\ out.visited < Len(arg)
    /\ out' = [out EXCEPT !.visited = @ + 1,
                          !.acc = @ + BytesIn(arg[out.visited + 1], 1)]
    /\ UNCHANGED <<agents, db, autoinc, now, response, envVars, agentVars,
                   sweepVars, reqVars, arg, raceVars>>

\* _calculate_size, one round of the os.walk loop: the files of the next
\* directory are added, then the ceiling is looked at and the loop is left
\* (and the rounded size returned) when the total is over it
_calculate_size_walk ==
    /\ out # NoneValue
    /\ out.routine = "_calculate_size"
    /\ ~ out.done
    /\ out.visited < Len(arg)
    /\ LET total_size == out.acc + BytesIn(arg[out.visited + 1], 1)
       IN  out' = IF total_size > SizeCeiling
                  THEN [out EXCEPT !.visited = @ + 1, !.acc = total_size,
                                   !.done = TRUE, !.value = Round2(total_size)]
                  ELSE [out EXCEPT !.visited = @ + 1, !.acc = total_size]
    /\ UNCHANGED <<agents, db, autoinc, now, response, envVars, agentVars,
                   sweepVars, reqVars, arg, raceVars>>

\* _calculate_size: os.walk is exhausted, the rounded size is returned
_calculate_size_return ==
    /\ out # NoneValue
    /\ out.routine = "_calculate_size"
    /\ ~ out.done
    /\ out.visited = Len(arg)
    /\ out' = [out EXCEPT !.done = TRUE, !.value = Round2(out.acc)]
    /\ UNCHANGED <<agents, db, autoinc, now, response, envVars, agentVars,
                   sweepVars, reqVars, arg, raceVars>>

\* _count_files, one round of the os.walk loop: count += len(files), and
\* over the limit the loop is left and min(count, 10000) returned
_count_files_walk ==
    /\ out # NoneValue
    /\ out.routine = "_count_files"
    /\ ~ out.done
    /\ out.visited < Len(arg)
    /\ LET count == out.acc + FilesIn(arg[out.visited + 1], 1)
       IN  out' = IF count > CountLimit
                  THEN [out EXCEPT !.visited = @ + 1, !.acc = count,
                                   !.done = TRUE, !.value = CountLimit]
                  ELSE [out EXCEPT !.visited = @ + 1, !.acc = count]
    /\ UNCHANGED <<agents, db, autoinc, now, response, envVars, agentVars,
                   sweepVars, reqVars, arg, raceVars>>

\* _count_files: os.walk is exhausted, min(count, 10000) is returned
_count_files_return ==
    /\ out # NoneValue
    /\ out.routine = "_count_files"
    /\ ~ out.done
    /\ out.visited = Len(arg)
    /\ out' = [out EXCEPT !.done = TRUE,
                          !.value = IF out.acc < CountLimit THEN out.acc
                                    ELSE CountLimit]
    /\ UNCHANGED <<agents, db, autoinc, now, response, envVars, agentVars,
                   sweepVars, reqVars, arg, raceVars>>

\* any tree of up to MaxDirs directories
ScanInit ==
    /\ StoreInit
    /\ pc = "none"
    /\ mode = "none"
    /\ self_agent_id = "a1"
    /\ cycle = 0
    /\ exit_code = -1
    /\ reg = "none"
    /\ attempted = {}
    /\ failed = {}
    /\ restarted = "no"
    /\ interrupted = FALSE
    /\ phase = "idle"
    /\ collected = 0
    /\ arg \in UNION {[1..n -> Directories] : n \in 1..MaxDirs}
    /\ out = NoneValue

ScanNext ==
    \/ scan_start
    \/ _calculate_size_walk
    \/ _calculate_size_return
    \/ _count_files_walk
    \/ _count_files_return

\* a scan is a loop of one thread: it goes on until it returns
ScanSpec == ScanInit /\ [][ScanNext]_vars /\ WF_vars(ScanNext)

\* ---- properties of the store ----

\* the time a stored timestamp stands for, in ticks
TimeOf(text) == fromisoformat(text).t

Registered(a) == \E r \in agents : r.agent_id = a

\* C1: the agents table holds at most one row per agent_id, and registering
\* an agent_id that already has a row replaces the row's metadata and leaves
\* the number of agents unchanged
C1_OneRowPerAgent ==
    /\ [](\A r1, r2 \in agents : r1.agent_id = r2.agent_id => r1 = r2)
    /\ [][\A a \in AgentIds, n \in AgentNames :
            (Registered(a) /\ api_agent_register(RegistrationData(a, n), TRUE))
                => /\ Cardinality(agents') = Cardinality(agents)
                   /\ \A r \in agents' : r.agent_id = a =>
                        /\ r.agent_name = n
                        /\ r.registered_at = strftimeZ(now)
                   /\ \A r \in agents : r.agent_id # a => r \in agents']_vars

\* an agent was registered again under another name and holds one row
C1_Witness ==
    /\ replaced
    /\ Cardinality(agents) = 2
    /\ Cardinality({r.agent_id : r \in agents}) = 2

\* C2: for each snapshot table, get_all_agent_data returns one payload for
\* each agent_id with rows in the table and for no other, and the payload is
\* that of a row whose timestamp is the latest among the agent's rows
C2_LatestPerAgent ==
    \A t \in TableSet :
        /\ get_all_agent_data(t) # {}
        /\ \A f \in get_all_agent_data(t) :
            /\ DOMAIN f = {a \in AgentIds : RowsOf(t, a) # {}}
            /\ \A a \in DOMAIN f :
                \E i \in RowsOf(t, a) :
                    /\ db[t][i].data = f[a]
                    /\ \A j \in RowsOf(t, a) :
                        TimeOf(db[t][j].timestamp) <= TimeOf(db[t][i].timestamp)

\* an agent has an older and a newer row in a table that a second agent also
\* has a row in, and the newer payload is the one returned
C2_Witness ==
    \E t \in TableSet, a \in AgentIds :
        /\ \E b \in AgentIds : b # a /\ RowsOf(t, b) # {}
        /\ \E i, j \in RowsOf(t, a) :
            /\ TimeOf(db[t][i].timestamp) < TimeOf(db[t][j].timestamp)
            /\ \A f \in get_all_agent_data(t) : f[a] = db[t][j].data

\* C3: a snapshot for an agent_id without a row in agents is inserted and
\* answered with 200, the agents table stays as it was, and the step in which
\* an agent_id gets its row leaves every snapshot row in place
C3_OrphanSnapshot ==
    [][/\ \A t \in TableSet, a \in AgentIds, touch_ok \in BOOLEAN :
            (~ Registered(a)
             /\ api_agent_data(t, [agent_id |-> a, body |-> Inserted + 1], TRUE, touch_ok))
                => /\ response' = 200
                   /\ agents' = agents
                   /\ Len(db'[t]) = Len(db[t]) + 1
                   /\ db'[t][Len(db'[t])].agent_id = a
                   /\ \A i \in 1..Len(db[t]) : db'[t][i] = db[t][i]
       /\ \A a \in AgentIds :
            (~ Registered(a) /\ Registered(a)') => db' = db]_vars

\* a table holds a row of an agent_id that is not registered, the last
\* request was answered with 200
C3_Witness ==
    /\ response = 200
    /\ \E t \in TableSet, a \in AgentIds : RowsOf(t, a) # {} /\ ~ Registered(a)

\* C4: a sweep deletes from each of the five tables exactly the rows stamped
\* before now - 24h and keeps the others in their order; with no such row the
\* tables stay as they are
C4_RetentionSweep ==
    [][cleanup_old_data(TRUE) =>
        \A t \in TableSet :
            db'[t] = SelectSeq(db[t],
                        LAMBDA r : TimeOf(r.timestamp) >= now - 24 * 60 * 60 * SubSecond)]_vars

\* a table has lost a row to a sweep while a row stamped exactly 24 hours
\* ago is still stored
C4_Witness ==
    /\ \E t \in TableSet : autoinc[t] > Len(db[t])
    /\ \E t \in TableSet : \E i \in 1..Len(db[t]) :
            TimeOf(db[t][i].timestamp) = now - 24 * 60 * 60 * SubSecond

\* C5: get_agents reports one entry per agent row, with status online when
\* now - last_seen is under 2 minutes, warning when under 10 minutes, offline
\* otherwise; an absent or unparsable last_seen gives unknown; the stored
\* status column has no part in it
C5_DerivedStatus ==
    /\ {g.agent_id : g \in get_agents} = {r.agent_id : r \in agents}
    /\ \A g \in get_agents :
        LET age == now - TimeOf(g.last_seen)
        IN  g.status = IF age < 2 * 60 * SubSecond THEN "online"
                       ELSE IF age < 10 * 60 * SubSecond THEN "warning"
                       ELSE "offline"
    /\ \A text \in {NoneValue, <<ZED>>, <<ZED, ZED>>} :
        _get_agent_status(text, now) = "unknown"
    /\ get_agents_of({[r EXCEPT !.status = "offline"] : r \in agents}) = get_agents

\* an agent last seen exactly 2 minutes ago is reported as warning, another
\* one last seen 10 minutes ago or more as offline
C5_Witness ==
    /\ \E g \in get_agents :
        g.status = "warning" /\ now - TimeOf(g.last_seen) = 2 * 60 * SubSecond
    /\ \E g \in get_agents : g.status = "offline"

\* ---- properties of the agent cycle ----

EndpointSet == {Endpoints[i] : i \in 1..Len(Endpoints)}

StoreEmpty == agents = {} /\ \A t \in TableSet : db[t] = <<>>

\* C6: a single-shot run against a fresh server, with every scanner of the
\* agent giving a payload, every POST answered with 200 and every posted
\* payload inserted, leaves one agent row and exactly one row in each of the
\* five snapshot tables, and exits with status 0
C6_SingleShotFiveRows ==
    (mode = "once" /\ pc = "exited" /\ ~ interrupted /\ restarted = "no"
        /\ reg = "ok" /\ failed = {} /\ attempted = EndpointSet
        /\ Inserted = Cardinality(attempted))
    => /\ Cardinality(agents) = 1
       /\ \A t \in TableSet : Len(db[t]) = 1
       /\ exit_code = 0

\* C7: in a cycle whose registration is answered with another status than
\* 200 or does not reach the server, no data POST is made and run_once
\* returns False; the registration step leaves the store as it was, and a
\* single-shot run then ends with status 1 and the store still empty
C7_RegistrationFailureAborts ==
    /\ [](reg \in {"rejected", "unreachable"} =>
            /\ attempted = {}
            /\ pc \in {"return_false", "sleep", "exited"})
    /\ []((mode = "once" /\ reg \in {"rejected", "unreachable"}) =>
            /\ StoreEmpty
            /\ (pc = "exited" /\ ~ interrupted) => exit_code = 1)
    /\ [][(reg = "none" /\ reg' \in {"rejected", "unreachable"}) =>
            /\ agents' = agents
            /\ db' = db
            /\ autoinc' = autoinc]_vars

\* a single-shot run has ended with status 1 after the server answered the
\* registration with 500
C7_Witness ==
    /\ mode = "once"
    /\ pc = "exited"
    /\ reg = "rejected"
    /\ response = 500
    /\ exit_code = 1

\* C8: in a cycle whose registration succeeded, every endpoint after the
\* first has had its POST attempted by the time run_once is past it,
\* whichever POSTs failed before
C8_FailedPostDoesNotBlock ==
    /\ failed \subseteq attempted
    /\ (pc \in EndpointSet \cup {"return_true"}) => reg = "ok"
    /\ \A i \in 1..Len(Endpoints) :
        (pc = Endpoints[i]) =>
            \A j \in 2..(i - 1) : Endpoints[j] \in attempted
    /\ (reg = "ok" /\ ~ interrupted /\ pc \in {"return_true", "sleep", "exited"}) =>
            \A j \in 2..Len(Endpoints) : Endpoints[j] \in attempted

\* the system and projects POSTs failed and the ssh POST was made and stored
C8_Witness ==
    /\ pc = "return_true"
    /\ {"system", "projects"} \subseteq failed
    /\ "ssh" \in attempted \ failed
    /\ db["ssh_data"] # <<>>

\* C9: the agent_id never changes, every cycle of the loop starts with the
\* registration, no data POST is made in a cycle without a successful
\* registration, and after the server lost its store between two cycles the
\* rows stored since belong to the agent_id, whose agent row is there
C9_RegistersEveryCycle ==
    /\ [][self_agent_id' = self_agent_id]_vars
    /\ [][(pc = "sleep" /\ pc' \notin {"sleep", "exited"}) =>
            (pc' = "register" /\ reg' = "none")]_vars
    /\ [](pc \in EndpointSet => reg = "ok")
    /\ []((reg = "ok" /\ restarted \in {"no", "before", "earlier"}) =>
            Registered(self_agent_id))
    /\ []((restarted = "before" /\ Inserted > 0) =>
            /\ Registered(self_agent_id)
            /\ \A t \in TableSet : \A i \in 1..Len(db[t]) :
                    db[t][i].agent_id = self_agent_id)

\* the store was lost during the sleep and in the cycle after it the agent
\* row is back and a snapshot is stored
C9_Witness ==
    /\ mode = "continuous"
    /\ cycle >= 2
    /\ restarted = "before"
    /\ Registered(self_agent_id)
    /\ \E t \in TableSet : db[t] # <<>>

\* C10: in continuous mode the agent exits only when interrupted, a new
\* cycle starts one interval after the sleep began, and each cycle is
\* followed by the next one unless the agent is interrupted
C10_LoopNeverStops ==
    /\ []((mode = "continuous" /\ pc = "exited") => interrupted)
    /\ [][(cycle' # cycle) =>
            /\ cycle' = cycle + 1
            /\ pc' = "register"
            /\ now' = now + 30 * SubSecond]_vars
    /\ \A n \in 1..(MaxCycles - 1) :
        (mode = "continuous" /\ cycle = n) ~> (cycle = n + 1 \/ interrupted)

\* the second cycle has begun though the first one never registered
C10_Witness ==
    /\ mode = "continuous"
    /\ cycle = 2
    /\ pc = "register"
    /\ restarted = "no"
    /\ agents = {}

\* ---- the step taken in parts ----

\* C11: an interrupt that arrives while a cycle is in progress lets the step
\* under way (scanner or POST) finish: an interrupted agent has exited
\* between two steps, never inside one, and with status 0
C11_InterruptAfterStep ==
    (pc = "exited" /\ interrupted) => (phase = "idle" /\ exit_code = 0)

\* ---- properties of the cleanup thread ----

\* C12: after every run of the retention sweep, a failed one included, the
\* next sweep is scheduled one hour later: at every moment exactly one sweep
\* is pending or running, and a pending one is due within the hour
C12_OneSweepPending ==
    /\ Len(timers) + Len(runs) = 1
    /\ \A i \in DOMAIN timers : timers[i] <= now + timedelta(SweepHours, 0)

Handled == events' = events + 1 /\ now' = now

\* C14: a request to an ingestion endpoint whose body is malformed (no JSON
\* object, or without agent_id or another identity field the endpoint needs)
\* is answered with a 400-class status, and no row of any table is inserted
\* or modified
C14_MalformedRejected ==
    [][(Handled /\ last_req'.body \in Malformed(last_req'.endpoint))
            => /\ response' \in 400..499
               /\ agents' = agents
               /\ db' = db]_vars

\* C15: when the insert of a snapshot or of an agent record raises, the
\* handler answers with a 500-class status, and a data handler that answers
\* with success has stored a row
C15_StoreFailureReported ==
    [][(Handled /\ last_req'.body = "object")
            => /\ last_req'.db = "insert_error" => response' \in 500..599
               /\ (last_req'.endpoint \in TableSet /\ response' = 200)
                    => Inserted' = Inserted + 1]_vars

\* C16: a snapshot POST that is accepted for a registered agent_id sets the
\* last_seen of that agent to the server time of the acceptance and changes
\* nothing else in the agents table
C16_LastSeenOnAccept ==
    [][(/\ Handled
        /\ last_req'.endpoint \in TableSet
        /\ last_req'.body = "object"
        /\ response' = 200
        /\ Registered(last_req'.agent_id))
            => \E r \in agents :
                /\ r.agent_id = last_req'.agent_id
                /\ agents' = (agents \ {r})
                              \cup {[r EXCEPT !.last_seen = isoformat(now)]}]_vars

\* ---- properties of the stored rows ----

\* the time a payload says it was collected at, in ticks
CollectedAt(data) == data.timestamp[1] * SubSecond

\* C17 as claimed: the timestamp of a stored row is the collection time its
\* payload carries
C17_CollectionTimeStored ==
    \A t \in TableSet : \A i \in 1..Len(db[t]) :
        TimeOf(db[t][i].timestamp) = CollectedAt(db[t][i].data)

\* C17: the timestamp of a stored row is the UTC time of the server at the
\* insert; the collection time stays inside the payload and is not later
\* than the row's timestamp
C17_ReceiptTimeStored ==
    /\ [](\A t \in TableSet : \A i \in 1..Len(db[t]) :
            CollectedAt(db[t][i].data) <= TimeOf(db[t][i].timestamp))
    /\ [][\A t \in TableSet :
            Len(db'[t]) > Len(db[t]) =>
                /\ db'[t][Len(db'[t])].timestamp = isoformat(now)
                /\ db'[t][Len(db'[t])].data.timestamp = strftimeZ(collected)]_vars

\* a row whose payload was collected a second before the server stored it
C17_Witness ==
    \E t \in TableSet : \E i \in 1..Len(db[t]) :
        /\ CollectedAt(db[t][i].data) < TimeOf(db[t][i].timestamp)
        /\ db[t][i].timestamp = isoformat(now)

\* C18: a stored snapshot row never changes: from one state to the next a
\* row that is still in its table is the same row, a new row is the one row
\* a handler has appended, a row is gone only when a sweep found it older
\* than the retention window, and a step that changes the agents table
\* without an insert (a registration) leaves the snapshot tables as they were
C18_SnapshotsImmutable ==
    [][/\ \A t \in TableSet :
            /\ \A i \in 1..Len(db[t]), j \in 1..Len(db'[t]) :
                db'[t][j].id = db[t][i].id => db'[t][j] = db[t][i]
            /\ \A j \in 1..Len(db'[t]) :
                (\A i \in 1..Len(db[t]) : db[t][i].id # db'[t][j].id)
                    => /\ j = Len(db'[t])
                       /\ db'[t][j].id = autoinc[t] + 1
                       /\ Inserted' = Inserted + 1
                       /\ response' = 200
            /\ \A i \in 1..Len(db[t]) :
                (\A j \in 1..Len(db'[t]) : db'[t][j].id # db[t][i].id)
                    => /\ TimeOf(db[t][i].timestamp)
                            < now - timedelta(RetentionHours, 0)
                       /\ UNCHANGED <<agents, autoinc, events>>
       /\ (agents' # agents /\ Inserted' = Inserted) => db' = db]_vars

\* a registered agent has posted twice to one table at two times, and the
\* first row is still there with its timestamp and its payload
C18_Witness ==
    \E t \in TableSet : \E i, j \in 1..Len(db[t]) :
        /\ i < j
        /\ db[t][i].agent_id = db[t][j].agent_id
        /\ Registered(db[t][i].agent_id)
        /\ TimeOf(db[t][i].timestamp) < TimeOf(db[t][j].timestamp)
        /\ db[t][i].data.body < db[t][j].data.body
        /\ \E r \in agents : r.last_seen = db[t][j].timestamp

\* ---- properties of the agent's rows and of the lists ----

\* C19: a registration of an agent_id that has a row keeps the row's
\* registered_at, the time of the first registration
C19_RegisteredAtKept ==
    [][\A r \in agents, q \in agents' :
            q.agent_id = r.agent_id => q.registered_at = r.registered_at]_vars

\* C20: every record a list-shaped endpoint returns carries the agent_id of
\* the agent whose latest snapshot holds it, and as agent_name the name that
\* agent is registered under
C20_RecordsTagged ==
    \A t \in ListTables : \A list \in api_list(t) : \A rec \in list :
        /\ \E i \in LatestRows(t, rec.agent_id) :
                db[t][i].data.body = rec.record
        /\ \A r \in agents :
                r.agent_id = rec.agent_id => rec.agent_name = r.agent_name

\* ---- properties of the aggregated views ----

\* C21: /api/system/info returns one entry for each registered agent and no
\* other entry; the entry holds the agent as get_agents gives it and the
\* payload of a latest system snapshot of that agent, or the empty mapping
\* when the agent has no system snapshot; an agent_id that has system
\* snapshots and no agent row has no entry
C21_SystemInfoPerAgent ==
    /\ get_aggregated_system_info # {}
    /\ \A res \in get_aggregated_system_info :
        /\ Len(res) = Cardinality(agents)
        /\ \A r \in agents :
            Cardinality({i \in DOMAIN res :
                            res[i].agent.agent_id = r.agent_id}) = 1
        /\ \A i \in DOMAIN res :
            /\ res[i].agent \in get_agents
            /\ IF RowsOf("system_data", res[i].agent.agent_id) = {}
               THEN res[i].system = NoneValue
               ELSE \E j \in LatestRows("system_data", res[i].agent.agent_id) :
                        res[i].system = db["system_data"][j].data

\* one agent is registered and has no system snapshot, another agent_id has
\* a system snapshot and no agent row
C21_Witness ==
    /\ \E r \in agents : RowsOf("system_data", r.agent_id) = {}
    /\ \E a \in AgentIds : ~ Registered(a) /\ RowsOf("system_data", a) # {}

\* ---- properties of the scanners ----

\* C22: when a read of a system metric raises, collect_system_info returns
\* the empty payload, never one with some metrics; a cycle whose system
\* payload is empty makes no system POST and stores nothing for it, and the
\* scanners after it are run and their payloads posted
C22_SystemAllOrNothing ==
    /\ [](\A m \in Metrics : collect_system_info(m) = NoneValue)
    /\ [](\A i \in 1..Len(db["system_data"]) :
            db["system_data"][i].data.metrics = Metrics)
    /\ [][(pc = "system" /\ pc' \notin {"system", "exited"}
                /\ "system" \notin attempted')
            => /\ pc' = "projects"
               /\ UNCHANGED <<agents, db, response>>]_vars
    /\ []((/\ pc \in {"return_true", "sleep", "exited"}
            /\ reg = "ok"
            /\ ~ interrupted
            /\ "system" \notin attempted)
            => {"projects", "docker", "ssh"} \subseteq attempted)

\* a cycle has ended in which no system POST was made and the projects,
\* docker and ssh payloads were posted and stored
C22_Witness ==
    /\ pc = "return_true"
    /\ "system" \notin attempted
    /\ db["system_data"] = <<>>
    /\ db["projects_data"] # <<>>
    /\ db["docker_data"] # <<>>
    /\ db["ssh_data"] # <<>>

\* ---- properties of the scanner routines ----

\* the type has an indicator that is the extension of the file or its whole
\* name, capitals aside
Indicates(entry, file) ==
    \E j \in DOMAIN entry.indicators :
        IF entry.indicators[j][1] = ""
        THEN suffix(lower(file.name)) = entry.indicators[j]
        ELSE lower(file.name) = lower(entry.indicators[j])

\* the files the routine that has answered looks at: the agent lists the
\* directory, the server the whole tree
FilesSeen ==
    {e \in arg : e.is_file /\ (out.routine = "server" \/ ~ e.nested)}

\* C23: project type detection returns the set of the type tags that have
\* an indicator matching at least one file, and {unknown} when there is
\* none: go.mod alone gives {go}, and package.json with requirements.txt
\* gives a set with javascript and python in it
C23_ProjectTypes ==
    out # NoneValue =>
        LET type_indicators == IF out.routine = "agent"
                               THEN agent_type_indicators
                               ELSE server_type_indicators
            tags == {type_indicators[k].proj_type :
                        k \in {k \in DOMAIN type_indicators :
                                \E e \in FilesSeen :
                                    Indicates(type_indicators[k], e)}}
            names == {e.name : e \in FilesSeen}
        IN  /\ out.types = IF tags = {} THEN {"unknown"} ELSE tags
            /\ names = {<<"go", "mod">>} => out.types = {"go"}
            /\ names \subseteq {<<"README", "md">>, <<"", "py">>}
                    => out.types = {"unknown"}
            /\ {<<"package", "json">>, <<"requirements", "txt">>}
                    \subseteq names
                    => {"javascript", "python"} \subseteq out.types

\* the agent has answered for a directory with package.json,
\* requirements.txt and a third file
C23_Witness ==
    /\ out # NoneValue
    /\ out.routine = "agent"
    /\ Cardinality(arg) = 3
    /\ {<<"package", "json">>, <<"requirements", "txt">>}
            \subseteq {e.name : e \in arg}
    /\ {"javascript", "python"} \subseteq out.types

\* C24: a private key without a public key to inspect gets its type from
\* its file name, with the precedence rsa, ed25519, ecdsa, dsa, else
\* unknown, from the agent's routine and from the server's alike; a name
\* with ecdsa in it and neither rsa nor ed25519 is ECDSA
C24_KeyTypeByName ==
    (out # NoneValue /\ arg.public_key = "none") =>
        LET name == lower_name(arg.name)
        IN  /\ out.type =
                    CASE Contains(name, RSA_) -> "RSA"
                      [] ~ Contains(name, RSA_) /\ Contains(name, ED25519_)
                            -> "Ed25519"
                      [] ~ Contains(name, RSA_) /\ ~ Contains(name, ED25519_)
                            /\ Contains(name, ECDSA_) -> "ECDSA"
                      [] ~ Contains(name, RSA_) /\ ~ Contains(name, ED25519_)
                            /\ ~ Contains(name, ECDSA_) /\ Contains(name, DSA_)
                            -> "DSA"
                      [] OTHER -> "Unknown"
            /\ (Contains(name, ECDSA_) /\ ~ Contains(name, RSA_)
                    /\ ~ Contains(name, ED25519_)) => out.type = "ECDSA"

\* the bytes of the readable files of the first k directories of a tree
RECURSIVE BytesOf(_, _)
BytesOf(tree, k) ==
    IF k = 0 THEN 0 ELSE BytesOf(tree, k - 1) + BytesIn(tree[k], 1)

Scanning(routine) == out # NoneValue /\ out.routine = routine

\* C25 as claimed: the size scan returns a value that is never greater than
\* the true total size of the tree
C25_SizeNeverAbove ==
    (Scanning("_calculate_size") /\ out.done)
        => out.value <= Floor2(BytesOf(arg, Len(arg)))

\* C25: the file count returned is at most 10,000; the size scan visits no
\* further directory once its total is over 500 MB; the total it has summed
\* is that of the directories visited and never above the true total, and
\* the value returned is that total in MB rounded to two decimals, so at
\* most a hundredth of a MB above the true total; both scans return
C25_BoundedScans ==
    /\ []((Scanning("_count_files") /\ out.done) => out.value <= CountLimit)
    /\ []((Scanning("_calculate_size") /\ ~ out.done) => out.acc <= SizeCeiling)
    /\ []((Scanning("_calculate_size") /\ out.done) =>
            /\ out.acc = BytesOf(arg, out.visited)
            /\ out.acc <= BytesOf(arg, Len(arg))
            /\ out.value = Round2(out.acc)
            /\ out.value <= Floor2(BytesOf(arg, Len(arg))) + 1
            /\ out.visited < Len(arg) => out.acc > SizeCeiling)
    /\ (out # NoneValue) ~> (out # NoneValue /\ out.done)

\* the size scan has returned over the ceiling and has left a directory of
\* the tree unvisited
C25_Witness ==
    /\ Scanning("_calculate_size")
    /\ out.done
    /\ out.acc > SizeCeiling
    /\ out.visited < Len(arg)

\* ---- snapshot POSTs handled by concurrent threads ----

\* a POST to /api/agents/system or /api/agents/projects reaches a thread of
\* the server
handler_begin ==
    \E t \in {"system_data", "projects_data"}, a \in AgentIds :
        /\ events < MaxEvents
        /\ Len(handlers) < MaxHandlers
        /\ handlers' = Append(handlers,
                              [table |-> t,
                               data |-> [agent_id |-> a, body |-> events + 1],
                               place |-> "insert_utcnow",
                               utcnow |-> now])
        /\ events' = events + 1
        /\ UNCHANGED <<agents, db, autoinc, now, response, replaced, agentVars,
                       sweepVars, reqVars, scanVars>>

\* datetime.utcnow() is evaluated, the value is an argument of the
\* statement that is executed afterwards
handler_utcnow(h) ==
    /\ handlers[h].place \in {"insert_utcnow", "update_utcnow"}
    /\ handlers' = [handlers EXCEPT
                      ![h].utcnow = now,
                      ![h].place = IF @ = "insert_utcnow" THEN "insert" ELSE "update"]
    /\ UNCHANGED <<agents, db, autoinc, now, response, envVars, agentVars,
                   sweepVars, reqVars, scanVars>>

\* store_agent_data: INSERT INTO {table} and commit
handler_insert(h) ==
    /\ handlers[h].place = "insert"
    /\ db' = [db EXCEPT ![handlers[h].table] =
                Append(@, [id |-> autoinc[handlers[h].table] + 1,
                           agent_id |-> handlers[h].data.agent_id,
                           timestamp |-> isoformat(handlers[h].utcnow),
                           data |-> handlers[h].data])]
    /\ autoinc' = [autoinc EXCEPT ![handlers[h].table] = @ + 1]
    /\ handlers' = [handlers EXCEPT ![h].place = "update_utcnow"]
    /\ UNCHANGED <<agents, now, response, envVars, agentVars, sweepVars,
                   reqVars, scanVars>>

\* update_agent_last_seen: UPDATE agents SET last_seen and commit; the
\* handler returns 200
handler_update(h) ==
    /\ handlers[h].place = "update"
    /\ agents' = {IF r.agent_id = handlers[h].data.agent_id
                  THEN [r EXCEPT !.last_seen = isoformat(handlers[h].utcnow)]
                  ELSE r : r \in agents}
    /\ response' = 200
    /\ handlers' = Remove(handlers, h)
    /\ UNCHANGED <<db, autoinc, now, envVars, agentVars, sweepVars, reqVars,
                   scanVars>>

handler_step ==
    \E h \in 1..Len(handlers) :
        handler_utcnow(h) \/ handler_insert(h) \/ handler_update(h)

RaceNext == Register \/ handler_begin \/ handler_step \/ TickSecond

RaceSpec == Init /\ [][RaceNext]_vars

\* C26: when no snapshot handler is in flight, the last_seen of a registered
\* agent is not before the latest timestamp of its stored snapshots
C26_LastSeenCoversSnapshots ==
    handlers = <<>> =>
        \A r \in agents : \A t \in TableSet : \A i \in RowsOf(t, r.agent_id) :
            TimeOf(db[t][i].timestamp) <= TimeOf(r.last_seen)

\* C27 as claimed: a single-shot run exits with 0 exactly when its
\* registration succeeded
C27_ExitByRegistration ==
    (mode = "once" /\ pc = "exited") => (exit_code = 0 <=> reg = "ok")

\* C27: a single-shot run that is not interrupted exits with 0 exactly when
\* its registration was answered with 200, whatever became of the scanners
\* and of the data POSTs; a run ended by Ctrl+C exits with 0 whether it had
\* registered or not
C27_ExitByRegistrationOrInterrupt ==
    /\ (mode = "once" /\ pc = "exited" /\ ~ interrupted) =>
            /\ exit_code \in {0, 1}
            /\ exit_code = 0 <=> reg = "ok"
    /\ (mode = "once" /\ pc = "exited" /\ interrupted) => exit_code = 0

\* a single-shot run has registered, every data POST it made has failed, the
\* system scanner gave nothing to post, and the run has ended by itself
C27_Witness ==
    /\ mode = "once"
    /\ pc = "exited"
    /\ ~ interrupted
    /\ reg = "ok"
    /\ "system" \notin attempted
    /\ attempted # {}
    /\ failed = attempted
    /\ exit_code = 0

\* ---- the latest snapshot of one agent ----

\* what get_latest_agent_data(table, agent_id) can return for an agent_id
\* that is not empty: SELECT data ... WHERE agent_id = ? ORDER BY timestamp
\* DESC LIMIT 1 gives one of the rows of the greatest timestamp (the query
\* fixes no order among equal timestamps), None when the agent has no row
get_latest_agent_data(table, agent_id) ==
    IF RowsOf(table, agent_id) = {} THEN {NoneValue}
    ELSE {db[table][i].data : i \in LatestRows(table, agent_id)}

\* C28: for every snapshot table and agent_id, get_latest_agent_data gives
\* the payload get_all_agent_data holds under that agent_id, and None
\* exactly when the mapping has no such key, also when two rows of the agent
\* share the greatest timestamp
C28_LatestAgreesWithAll ==
    \A t \in TableSet : \A a \in AgentIds :
        \A latest \in get_latest_agent_data(t, a) :
            \A all_data \in get_all_agent_data(t) :
                /\ latest = NoneValue <=> a \notin DOMAIN all_data
                /\ a \in DOMAIN all_data => latest = all_data[a]

\* what get_all_agent_data(table) can hold under agent_id, None when the
\* mapping has no such key
ResultFor(table, agent_id) ==
    {IF agent_id \in DOMAIN all_data THEN all_data[agent_id] ELSE NoneValue :
        all_data \in get_all_agent_data(table)}

\* the agent has a row in the table that is not older than the cutoff of a
\* sweep made now
HasRowSince(table, agent_id, cutoff) ==
    \E i \in RowsOf(table, agent_id) : TimeOf(db[table][i].timestamp) >= cutoff

\* C29: a step that deletes rows leaves get_all_agent_data as it was for
\* every agent that has a row at or after the cutoff, and an agent leaves
\* the result only when all its rows in the table are older than the cutoff
C29_SweepKeepsLatest ==
    [][(\E s \in TableSet : Len(db'[s]) < Len(db[s])) =>
        \A t \in TableSet : \A a \in AgentIds :
            LET cutoff == now - timedelta(RetentionHours, 0)
            IN  /\ HasRowSince(t, a, cutoff) => ResultFor(t, a)' = ResultFor(t, a)
                /\ (ResultFor(t, a) # {NoneValue} /\ ResultFor(t, a)' = {NoneValue})
                      => ~ HasRowSince(t, a, cutoff)]_vars

\* a sweep has deleted rows of a table and has left a row in it
C29_Witness ==
    \E t \in TableSet :
        /\ Len(db[t]) < autoinc[t]
        /\ Len(db[t]) > 0

RegisteredIds == {r.agent_id : r \in agents}

\* C30: no step of the store takes an agent_id out of the agents table, and
\* a step that deletes snapshot rows leaves the agents table as it was
C30_AgentsNeverDeleted ==
    [][/\ RegisteredIds \subseteq RegisteredIds'
       /\ (\E t \in TableSet : Len(db'[t]) < Len(db[t])) => agents' = agents]_vars

\* agents are registered, snapshots were stored and a sweep has removed
\* every one of them
C30_Witness ==
    /\ agents # {}
    /\ Inserted > 0
    /\ \A t \in TableSet : db[t] = <<>>

====
